---- MODULE Spec2Model ----
(***************************************************************************)
(* AccountService (app/services/account_service.py): an in-memory table of *)
(* accounts guarded by one ledger-wide RLock and one RLock per account.    *)
(* Every caller is a thread running one service method at a time; a step   *)
(* of the model is one access to the shared tables, objects or locks.      *)
(* Balances and amounts are whole currency units.                          *)
(***************************************************************************)
EXTENDS Integers, Sequences, FiniteSets, TLC

\* ---- bounds of the model ----
NumThreads == 2
NumIds == 3
MaxAmount == 2
MaxBalance == 2
MaxClock == 2
BatchSize == 4

\* ---- configuration (settings.py) ----
MAX_ACCOUNTS == 2
MAX_TRANSACTION_AMOUNT == 1

Threads == 1..NumThreads
\* identifiers uuid4 can hand out; BogusId is a string no create ever returns
AllocIds == 1..NumIds
BogusId == 0
Ids == AllocIds \cup {BogusId}
LockObjs == 1..(NumIds + 1 + NumThreads)
None == 0
NoLock == 0
Amounts == (0 - 1)..MaxAmount
TxnOps == {"deposit", "withdraw"}

VARIABLES
    accounts,        \* keys of self.accounts (key k maps to the Account object k)
    obj,             \* the Account objects: balance, created_at, last_updated
    account_locks,   \* self.account_locks: identifier -> lock object, NoLock if no entry
    owner,           \* owner of each account RLock object, None if free
    global_owner,    \* owner of self.global_lock, None if free
    clock,           \* the wall clock datetime.now() reads
    uuids,           \* identifiers uuid4 has already returned
    pc, op, arg_id, arg_amt,      \* each caller: position, method, arguments
    lk,              \* each caller: the lock object its with-statement evaluated
    old_balance, new_balance,     \* locals of _atomic_transaction
    cur, tmp_bal, accounts_info,  \* locals of list_all_accounts
    res,             \* each caller: outcome of its last call
    known,           \* history: identifiers create has returned to some caller
    deleted,         \* history: identifiers for which delete returned success
    expected,        \* history: initial balance + successful deposits - successful withdrawals
    lastStored,      \* history: balance stored by the last completed mutation (or create)
    lastRead,        \* history: balances get_balance returned since the last completed mutation
    script,          \* history: how many calls of the test scenario have been issued
    csSnap,          \* history: the account as the caller found it when it entered its critical section
    myTs,            \* history: the timestamp this call stored
    invokedDeleted   \* history: target was already deleted when the call was invoked

vars == <<accounts, obj, account_locks, owner, global_owner, clock, uuids,
          pc, op, arg_id, arg_amt, lk, old_balance, new_balance,
          cur, tmp_bal, accounts_info, res,
          known, deleted, expected, lastStored, lastRead, script,
          csSnap, myTs, invokedDeleted>>

tables == <<accounts, obj, account_locks>>
locks == <<owner, global_owner>>
txnLocals == <<old_balance, new_balance>>
listLocals == <<cur, tmp_bal, accounts_info>>
history == <<known, deleted, expected, lastStored, lastRead, script>>

NoAccount == [balance |-> 0, created_at |-> 0, last_updated |-> 0]
NoResult == [st |-> "none", bal |-> 0, amt |-> 0, ts |-> 0, id |-> BogusId]

Min(S) == CHOOSE x \in S : \A y \in S : x <= y

Result(st, id, bal, amt, ts) == [st |-> st, bal |-> bal, amt |-> amt, ts |-> ts, id |-> id]

\* ---- pure helpers taken from the code ----

\* mutant: the capacity check is off by one
AtCapacityOffByOne(n) == n > MAX_ACCOUNTS

\* create_account: len(self.accounts) >= settings.MAX_ACCOUNTS
AtCapacity(n) == n >= MAX_ACCOUNTS

\* AccountBase.balance: Field(ge=0)
ValidBalance(b) == b >= 0

\* TransactionRequest.amount: Field(gt=0, le=settings.MAX_TRANSACTION_AMOUNT)
ValidAmount(a) == a > 0 /\ a <= MAX_TRANSACTION_AMOUNT

\* AccountCreate.initial_balance: Field(ge=0, le=settings.MAX_TRANSACTION_AMOUNT)
ValidInitial(b) == b >= 0 /\ b <= MAX_TRANSACTION_AMOUNT

\* mutant: withdraw_money forgets to negate the amount
AmountChangeNoNegate(o, amount) == amount

\* withdraw_money passes -amount, deposit_money passes amount
AmountChange(o, amount) == IF o = "withdraw" THEN 0 - amount ELSE amount

\* new_balance = old_balance + amount_change
NewBalance(old, change) == old + change

\* mutant: the funds check tests the wrong sign of the change
InsufficientWrongSign(change, new) == change > 0 /\ new < 0

\* mutant: the funds check is missing
InsufficientNever(change, new) == FALSE

\* mutant: a withdrawal that would leave exactly 0 is refused as well
InsufficientStrict(change, new) == change < 0 /\ new <= 0

\* if amount_change < 0 and new_balance < 0
Insufficient(change, new) == change < 0 /\ new < 0

\* abs(amount_change)
Abs(x) == IF x < 0 THEN 0 - x ELSE x

\* mutant: acquiring an account lock never waits
CanAcquireNoWait(l) == TRUE

\* mutant: one lock for the whole ledger: an account lock is only granted while
\* no account lock at all is held
CanAcquireAnyHeld(l) == \A x \in LockObjs : owner[x] = None

\* RLock.acquire by a thread that does not own it: blocks while owned
CanAcquire(l) == owner[l] = None

\* mutant: acquiring the ledger-wide lock never waits
CanAcquireGlobalNoWait == TRUE

\* self.global_lock.acquire
CanAcquireGlobal == global_owner = None

\* datetime.now(): the clock never runs backwards; two reads may tie
NowValues == {c \in {clock, clock + 1} : c <= MaxClock}

\* threading.RLock(): a new lock object, distinct from every lock in use
FreshLock ==
    Min(LockObjs \ ({account_locks[i] : i \in Ids} \cup {lk[t] : t \in Threads}))

\* next key of the for-loop over self.accounts.items() (insertion order)
NextKey(c) == {i \in accounts : i > c}

Init ==
    /\ accounts = {}
    /\ obj = [i \in AllocIds |-> NoAccount]
    /\ account_locks = [i \in Ids |-> NoLock]
    /\ owner = [l \in LockObjs |-> None]
    /\ global_owner = None
    /\ clock = 0
    /\ uuids = {}
    /\ pc = [t \in Threads |-> "idle"]
    /\ op = [t \in Threads |-> "none"]
    /\ arg_id = [t \in Threads |-> BogusId]
    /\ arg_amt = [t \in Threads |-> 0]
    /\ lk = [t \in Threads |-> NoLock]
    /\ old_balance = [t \in Threads |-> 0]
    /\ new_balance = [t \in Threads |-> 0]
    /\ cur = [t \in Threads |-> 0]
    /\ tmp_bal = [t \in Threads |-> 0]
    /\ accounts_info = [t \in Threads |-> <<>>]
    /\ res = [t \in Threads |-> NoResult]
    /\ known = {}
    /\ deleted = {}
    /\ expected = [i \in AllocIds |-> 0]
    /\ lastStored = [i \in AllocIds |-> 0]
    /\ lastRead = [i \in AllocIds |-> {}]
    /\ script = 0
    /\ csSnap = [t \in Threads |-> NoAccount]
    /\ myTs = [t \in Threads |-> 0]
    /\ invokedDeleted = [t \in Threads |-> FALSE]

\* ---- a caller starts a call ----

Begin(t, o, i, a, first) ==
    /\ pc[t] = "idle"
    /\ pc' = [pc EXCEPT ![t] = first]
    /\ op' = [op EXCEPT ![t] = o]
    /\ arg_id' = [arg_id EXCEPT ![t] = i]
    /\ arg_amt' = [arg_amt EXCEPT ![t] = a]
    /\ invokedDeleted' = [invokedDeleted EXCEPT ![t] = i \in deleted]
    /\ UNCHANGED <<tables, locks, clock, uuids, lk, txnLocals, listLocals, res,
                   known, deleted, expected, lastStored, lastRead, csSnap, myTs>>

\* the call returns (or raises) to its caller: its frame is gone
Finish(t) ==
    /\ pc' = [pc EXCEPT ![t] = "idle"]
    /\ op' = [op EXCEPT ![t] = "none"]
    /\ arg_id' = [arg_id EXCEPT ![t] = BogusId]
    /\ arg_amt' = [arg_amt EXCEPT ![t] = 0]
    /\ lk' = [lk EXCEPT ![t] = NoLock]
    /\ old_balance' = [old_balance EXCEPT ![t] = 0]
    /\ new_balance' = [new_balance EXCEPT ![t] = 0]
    /\ cur' = [cur EXCEPT ![t] = 0]
    /\ tmp_bal' = [tmp_bal EXCEPT ![t] = 0]
    /\ accounts_info' = [accounts_info EXCEPT ![t] = <<>>]
    /\ res' = [res EXCEPT ![t] = NoResult]
    /\ csSnap' = [csSnap EXCEPT ![t] = NoAccount]
    /\ myTs' = [myTs EXCEPT ![t] = 0]
    /\ invokedDeleted' = [invokedDeleted EXCEPT ![t] = FALSE]

\* identifiers a caller can pass: one it was given by create, or a made-up one
Targets == known \cup {BogusId}

\* callers inside create_account that have not drawn their identifier yet
Creating == {u \in Threads : pc[u] \in {"c_acq", "c_chk", "c_new"}}

\* the workload of a specification: the initial balances, identifiers and amounts
\* its callers pass, and how many identifiers uuid4 hands out in all
InvokeCreate(t, inits, budget) ==
    \E b \in inits :
        /\ Cardinality(uuids) + Cardinality(Creating) < budget
        /\ Begin(t, "create", BogusId, b, "c_acq")
        /\ UNCHANGED script

InvokeGetBalance(t, ids) ==
    \E i \in Targets \cap ids :
        Begin(t, "get_balance", i, 0, "lk") /\ UNCHANGED script

InvokeDelete(t, ids) ==
    \E i \in Targets \cap ids :
        Begin(t, "delete", i, 0, "d_acq") /\ UNCHANGED script

InvokeList(t) == Begin(t, "list", BogusId, 0, "l_acq") /\ UNCHANGED script

InvokeDeposit(t, ids, amts) ==
    \E i \in Targets \cap ids, a \in amts :
        /\ i \in AllocIds => obj[i].balance + a <= MaxBalance
        /\ Begin(t, "deposit", i, a, "lk")
        /\ UNCHANGED script

InvokeWithdraw(t, ids, amts) ==
    \E i \in Targets \cap ids, a \in amts :
        /\ i \in AllocIds => obj[i].balance - a <= MaxBalance
        /\ Begin(t, "withdraw", i, a, "lk")
        /\ UNCHANGED script

\* ---- create_account ----

\* with self.global_lock:
CreateAcquire(t) ==
    /\ pc[t] = "c_acq"
    /\ CanAcquireGlobal
    /\ global_owner' = t
    /\ pc' = [pc EXCEPT ![t] = "c_chk"]
    /\ UNCHANGED <<tables, owner, clock, uuids, op, arg_id, arg_amt, lk, txnLocals,
                   listLocals, res, history, csSnap, myTs, invokedDeleted>>

\* if len(self.accounts) >= settings.MAX_ACCOUNTS: raise HTTPException(507)
CreateCheck(t) ==
    /\ pc[t] = "c_chk"
    /\ IF AtCapacity(Cardinality(accounts))
       THEN /\ res' = [res EXCEPT ![t] = Result("CapacityExceeded", BogusId, 0, 0, 0)]
            /\ pc' = [pc EXCEPT ![t] = "c_rel"]
       ELSE /\ pc' = [pc EXCEPT ![t] = "c_new"]
            /\ UNCHANGED res
    /\ UNCHANGED <<tables, locks, clock, uuids, op, arg_id, arg_amt, lk, txnLocals,
                   listLocals, history, csSnap, myTs, invokedDeleted>>

\* mutant: the identifier is the lowest one not in the table (freed ones are reused)
CreateInsertReuses(t) ==
    /\ pc[t] = "c_new"
    /\ LET n == Min(AllocIds \ accounts) IN
       \E now \in NowValues :
        /\ uuids' = uuids \cup {n}
        /\ clock' = now
        /\ arg_id' = [arg_id EXCEPT ![t] = n]
        /\ IF ValidBalance(arg_amt[t])
           THEN /\ obj' = [obj EXCEPT ![n] = [balance |-> arg_amt[t],
                                              created_at |-> now,
                                              last_updated |-> now]]
                /\ accounts' = accounts \cup {n}
                /\ expected' = [expected EXCEPT ![n] = arg_amt[t]]
                /\ lastStored' = [lastStored EXCEPT ![n] = arg_amt[t]]
                /\ pc' = [pc EXCEPT ![t] = "c_lk"]
                /\ UNCHANGED res
           ELSE /\ res' = [res EXCEPT ![t] = Result("ValidationError", BogusId, 0, 0, 0)]
                /\ pc' = [pc EXCEPT ![t] = "c_rel"]
                /\ UNCHANGED <<obj, accounts, expected, lastStored>>
    /\ UNCHANGED <<account_locks, locks, op, arg_amt, lk, txnLocals, listLocals,
                   known, deleted, lastRead, script, csSnap, myTs, invokedDeleted>>

\* uuid4(), datetime.now(), Account(...) (validates balance >= 0), self.accounts[n] = account
CreateInsert(t) ==
    /\ pc[t] = "c_new"
    /\ LET n == Min(AllocIds \ uuids) IN
       \E now \in NowValues :
        /\ uuids' = uuids \cup {n}
        /\ clock' = now
        /\ arg_id' = [arg_id EXCEPT ![t] = n]
        /\ IF ValidBalance(arg_amt[t])
           THEN /\ obj' = [obj EXCEPT ![n] = [balance |-> arg_amt[t],
                                              created_at |-> now,
                                              last_updated |-> now]]
                /\ accounts' = accounts \cup {n}
                /\ expected' = [expected EXCEPT ![n] = arg_amt[t]]
                /\ lastStored' = [lastStored EXCEPT ![n] = arg_amt[t]]
                /\ pc' = [pc EXCEPT ![t] = "c_lk"]
                /\ UNCHANGED res
           ELSE /\ res' = [res EXCEPT ![t] = Result("ValidationError", BogusId, 0, 0, 0)]
                /\ pc' = [pc EXCEPT ![t] = "c_rel"]
                /\ UNCHANGED <<obj, accounts, expected, lastStored>>
    /\ UNCHANGED <<account_locks, locks, op, arg_amt, lk, txnLocals, listLocals,
                   known, deleted, lastRead, script, csSnap, myTs, invokedDeleted>>

\* _ = self.account_locks[account_number]   (defaultdict: creates the entry)
CreateLock(t) ==
    /\ pc[t] = "c_lk"
    /\ account_locks' = [account_locks EXCEPT ![arg_id[t]] =
                            IF @ # NoLock THEN @ ELSE FreshLock]
    /\ res' = [res EXCEPT ![t] = Result("ok", arg_id[t], arg_amt[t], 0, 0)]
    /\ pc' = [pc EXCEPT ![t] = "c_rel"]
    /\ UNCHANGED <<accounts, obj, locks, clock, uuids, op, arg_id, arg_amt, lk, txnLocals,
                   listLocals, history, csSnap, myTs, invokedDeleted>>

\* leaving the with-block: release the ledger-wide lock, return or raise
CreateReturn(t) ==
    /\ pc[t] = "c_rel"
    /\ global_owner' = IF global_owner = t THEN None ELSE global_owner
    /\ known' = IF res[t].st = "ok" THEN known \cup {res[t].id} ELSE known
    /\ Finish(t)
    /\ UNCHANGED <<tables, owner, clock, uuids, deleted, expected, lastStored,
                   lastRead, script>>

\* mutant: get_balance enters the ledger-wide lock inside the account lock
AfterAcquireNested(o) ==
    IF o = "get_balance" THEN "l_acq" ELSE IF o = "delete" THEN "d_del" ELSE "t_get"

\* ---- self.account_locks[account_number] and acquiring the lock it yields ----

AfterAcquire(o) ==
    IF o = "get_balance" THEN "g_get" ELSE IF o = "delete" THEN "d_del" ELSE "t_get"

\* mutant: every call locks a new RLock of its own instead of the table's
EvalLockPerCall(t) ==
    /\ pc[t] = "lk"
    /\ lk' = [lk EXCEPT ![t] = FreshLock]
    /\ pc' = [pc EXCEPT ![t] = "acq"]
    /\ UNCHANGED <<tables, locks, clock, uuids, op, arg_id, arg_amt, txnLocals,
                   listLocals, res, history, csSnap, myTs, invokedDeleted>>

\* self.account_locks[k]: the entry, or on a miss a new RLock that is then stored
EvalLock(t) ==
    /\ pc[t] = "lk"
    /\ IF account_locks[arg_id[t]] # NoLock
       THEN /\ lk' = [lk EXCEPT ![t] = account_locks[arg_id[t]]]
            /\ pc' = [pc EXCEPT ![t] = "acq"]
       ELSE /\ lk' = [lk EXCEPT ![t] = FreshLock]
            /\ pc' = [pc EXCEPT ![t] = "lkset"]
    /\ UNCHANGED <<tables, locks, clock, uuids, op, arg_id, arg_amt, txnLocals,
                   listLocals, res, history, csSnap, myTs, invokedDeleted>>

\* defaultdict.__missing__: self[key] = value
StoreLock(t) ==
    /\ pc[t] = "lkset"
    /\ account_locks' = [account_locks EXCEPT ![arg_id[t]] = lk[t]]
    /\ pc' = [pc EXCEPT ![t] = "acq"]
    /\ UNCHANGED <<accounts, obj, locks, clock, uuids, op, arg_id, arg_amt, lk, txnLocals,
                   listLocals, res, history, csSnap, myTs, invokedDeleted>>

\* mutant: get_balance reads without taking the account lock
AcquireLockReadersSkip(t) ==
    /\ pc[t] = "acq"
    /\ op[t] = "get_balance" \/ CanAcquire(lk[t])
    /\ owner' = IF op[t] = "get_balance" THEN owner ELSE [owner EXCEPT ![lk[t]] = t]
    /\ pc' = [pc EXCEPT ![t] = AfterAcquire(op[t])]
    /\ UNCHANGED <<tables, global_owner, clock, uuids, op, arg_id, arg_amt, lk, txnLocals,
                   listLocals, res, history, csSnap, myTs, invokedDeleted>>

\* mutant: delete_account removes the account without taking its lock
AcquireLockDeleteSkips(t) ==
    /\ pc[t] = "acq"
    /\ op[t] = "delete" \/ CanAcquire(lk[t])
    /\ owner' = IF op[t] = "delete" THEN owner ELSE [owner EXCEPT ![lk[t]] = t]
    /\ pc' = [pc EXCEPT ![t] = AfterAcquire(op[t])]
    /\ UNCHANGED <<tables, global_owner, clock, uuids, op, arg_id, arg_amt, lk, txnLocals,
                   listLocals, res, history, csSnap, myTs, invokedDeleted>>

\* with <lock>: __enter__
AcquireLock(t) ==
    /\ pc[t] = "acq"
    /\ CanAcquire(lk[t])
    /\ owner' = [owner EXCEPT ![lk[t]] = t]
    /\ pc' = [pc EXCEPT ![t] = AfterAcquire(op[t])]
    /\ UNCHANGED <<tables, global_owner, clock, uuids, op, arg_id, arg_amt, lk, txnLocals,
                   listLocals, res, history, csSnap, myTs, invokedDeleted>>

\* mutant: leaving the with-block does not release the account lock
ReleasedKeeps(t) == owner

\* with <lock>: __exit__
Released(t) == [owner EXCEPT ![lk[t]] = IF @ = t THEN None ELSE @]

\* ---- get_balance ----

\* account = self._get_account_unsafe(account_number)
GetLookup(t) ==
    /\ pc[t] = "g_get"
    /\ IF arg_id[t] \in accounts
       THEN /\ pc' = [pc EXCEPT ![t] = "g_read"]
            /\ csSnap' = [csSnap EXCEPT ![t] = obj[arg_id[t]]]
            /\ UNCHANGED res
       ELSE /\ res' = [res EXCEPT ![t] = Result("NotFound", arg_id[t], 0, 0, 0)]
            /\ pc' = [pc EXCEPT ![t] = "g_rel"]
            /\ UNCHANGED csSnap
    /\ UNCHANGED <<tables, locks, clock, uuids, op, arg_id, arg_amt, lk, txnLocals,
                   listLocals, history, myTs, invokedDeleted>>

\* mutant: reading the balance charges a fee of one unit
GetReadCharges(t) ==
    /\ pc[t] = "g_read"
    /\ res' = [res EXCEPT ![t] = Result("ok", arg_id[t], obj[arg_id[t]].balance, 0, 0)]
    /\ obj' = [obj EXCEPT ![arg_id[t]].balance = IF @ > 0 THEN @ - 1 ELSE @]
    /\ pc' = [pc EXCEPT ![t] = "g_rel"]
    /\ UNCHANGED <<accounts, account_locks, locks, clock, uuids, op, arg_id, arg_amt, lk,
                   txnLocals, listLocals, history, csSnap, myTs, invokedDeleted>>

\* mutant: reading the balance counts as an update
GetReadTouches(t) ==
    /\ pc[t] = "g_read"
    /\ res' = [res EXCEPT ![t] = Result("ok", arg_id[t], obj[arg_id[t]].balance, 0, 0)]
    /\ obj' = [obj EXCEPT ![arg_id[t]].last_updated = @ + 1]
    /\ pc' = [pc EXCEPT ![t] = "g_rel"]
    /\ UNCHANGED <<accounts, account_locks, locks, clock, uuids, op, arg_id, arg_amt, lk,
                   txnLocals, listLocals, history, csSnap, myTs, invokedDeleted>>

\* BalanceResponse(account_number=..., balance=account.balance)
GetRead(t) ==
    /\ pc[t] = "g_read"
    /\ res' = [res EXCEPT ![t] = Result("ok", arg_id[t], obj[arg_id[t]].balance, 0, 0)]
    /\ pc' = [pc EXCEPT ![t] = "g_rel"]
    /\ UNCHANGED <<tables, locks, clock, uuids, op, arg_id, arg_amt, lk, txnLocals,
                   listLocals, history, csSnap, myTs, invokedDeleted>>

GetReturn(t) ==
    /\ pc[t] = "g_rel"
    /\ owner' = Released(t)
    /\ lastRead' = IF res[t].st = "ok"
                   THEN [lastRead EXCEPT ![arg_id[t]] = @ \cup {res[t].bal}]
                   ELSE lastRead
    /\ Finish(t)
    /\ UNCHANGED <<tables, global_owner, clock, uuids, known, deleted, expected,
                   lastStored, script>>

\* ---- _atomic_transaction (deposit_money, withdraw_money) ----

\* mutant: a missing account is inserted by the lookup (dict.setdefault)
TxnLookupCreates(t) ==
    /\ pc[t] = "t_get"
    /\ IF arg_id[t] \in AllocIds
       THEN /\ accounts' = accounts \cup {arg_id[t]}
            /\ pc' = [pc EXCEPT ![t] = "t_read"]
            /\ csSnap' = [csSnap EXCEPT ![t] = obj[arg_id[t]]]
            /\ UNCHANGED res
       ELSE /\ res' = [res EXCEPT ![t] = Result("NotFound", arg_id[t], 0, 0, 0)]
            /\ pc' = [pc EXCEPT ![t] = "t_rel"]
            /\ UNCHANGED <<accounts, csSnap>>
    /\ UNCHANGED <<obj, account_locks, locks, clock, uuids, op, arg_id, arg_amt, lk,
                   txnLocals, listLocals, history, myTs, invokedDeleted>>

\* account = self._get_account_unsafe(account_number)
TxnLookup(t) ==
    /\ pc[t] = "t_get"
    /\ IF arg_id[t] \in accounts
       THEN /\ pc' = [pc EXCEPT ![t] = "t_read"]
            /\ csSnap' = [csSnap EXCEPT ![t] = obj[arg_id[t]]]
            /\ UNCHANGED res
       ELSE /\ res' = [res EXCEPT ![t] = Result("NotFound", arg_id[t], 0, 0, 0)]
            /\ pc' = [pc EXCEPT ![t] = "t_rel"]
            /\ UNCHANGED csSnap
    /\ UNCHANGED <<tables, locks, clock, uuids, op, arg_id, arg_amt, lk, txnLocals,
                   listLocals, history, myTs, invokedDeleted>>

\* mutant: the new balance is stored before the funds check
TxnReadWritesFirst(t) ==
    /\ pc[t] = "t_read"
    /\ LET change == AmountChange(op[t], arg_amt[t])
           old == obj[arg_id[t]].balance
           new == NewBalance(old, change) IN
        /\ old_balance' = [old_balance EXCEPT ![t] = old]
        /\ new_balance' = [new_balance EXCEPT ![t] = new]
        /\ obj' = [obj EXCEPT ![arg_id[t]].balance = new]
        /\ IF Insufficient(change, new)
           THEN /\ res' = [res EXCEPT ![t] = Result("InsufficientFunds", arg_id[t], 0, 0, 0)]
                /\ pc' = [pc EXCEPT ![t] = "t_rel"]
           ELSE /\ pc' = [pc EXCEPT ![t] = "t_wbal"]
                /\ UNCHANGED res
    /\ UNCHANGED <<accounts, account_locks, locks, clock, uuids, op, arg_id, arg_amt, lk,
                   listLocals, history, csSnap, myTs, invokedDeleted>>

\* old_balance = account.balance; new_balance = old_balance + amount_change;
\* if amount_change < 0 and new_balance < 0: raise HTTPException(400)
TxnRead(t) ==
    /\ pc[t] = "t_read"
    /\ LET change == AmountChange(op[t], arg_amt[t])
           old == obj[arg_id[t]].balance
           new == NewBalance(old, change) IN
        /\ old_balance' = [old_balance EXCEPT ![t] = old]
        /\ new_balance' = [new_balance EXCEPT ![t] = new]
        /\ IF Insufficient(change, new)
           THEN /\ res' = [res EXCEPT ![t] = Result("InsufficientFunds", arg_id[t], 0, 0, 0)]
                /\ pc' = [pc EXCEPT ![t] = "t_rel"]
           ELSE /\ pc' = [pc EXCEPT ![t] = "t_wbal"]
                /\ UNCHANGED res
    /\ UNCHANGED <<tables, locks, clock, uuids, op, arg_id, arg_amt, lk,
                   listLocals, history, csSnap, myTs, invokedDeleted>>

\* mutant: the new balance is written to every Account object
TxnWriteBalanceAll(t) ==
    /\ pc[t] = "t_wbal"
    /\ obj' = [i \in AllocIds |-> [obj[i] EXCEPT !.balance = new_balance[t]]]
    /\ pc' = [pc EXCEPT ![t] = "t_wts"]
    /\ UNCHANGED <<accounts, account_locks, locks, clock, uuids, op, arg_id, arg_amt, lk,
                   txnLocals, listLocals, res, history, csSnap, myTs, invokedDeleted>>

\* account.balance = new_balance
TxnWriteBalance(t) ==
    /\ pc[t] = "t_wbal"
    /\ obj' = [obj EXCEPT ![arg_id[t]].balance = new_balance[t]]
    /\ pc' = [pc EXCEPT ![t] = "t_wts"]
    /\ UNCHANGED <<accounts, account_locks, locks, clock, uuids, op, arg_id, arg_amt, lk,
                   txnLocals, listLocals, res, history, csSnap, myTs, invokedDeleted>>

\* account.last_updated = datetime.now()
TxnWriteTimestamp(t) ==
    /\ pc[t] = "t_wts"
    /\ \E now \in NowValues :
        /\ clock' = now
        /\ obj' = [obj EXCEPT ![arg_id[t]].last_updated = now]
        /\ myTs' = [myTs EXCEPT ![t] = now]
    /\ pc' = [pc EXCEPT ![t] = "t_store"]
    /\ UNCHANGED <<accounts, account_locks, locks, uuids, op, arg_id, arg_amt, lk,
                   txnLocals, listLocals, res, history, csSnap, invokedDeleted>>

\* self.accounts[account_number] = account
TxnStore(t) ==
    /\ pc[t] = "t_store"
    /\ accounts' = accounts \cup {arg_id[t]}
    /\ pc' = [pc EXCEPT ![t] = "t_resp"]
    /\ UNCHANGED <<obj, account_locks, locks, clock, uuids, op, arg_id, arg_amt, lk,
                   txnLocals, listLocals, res, history, csSnap, myTs, invokedDeleted>>

\* TransactionResponse(new_balance=new_balance, transaction_amount=abs(amount_change),
\*                     timestamp=account.last_updated)
TxnRespond(t) ==
    /\ pc[t] = "t_resp"
    /\ res' = [res EXCEPT ![t] =
                 Result("ok", arg_id[t], new_balance[t],
                        Abs(AmountChange(op[t], arg_amt[t])),
                        obj[arg_id[t]].last_updated)]
    /\ pc' = [pc EXCEPT ![t] = "t_rel"]
    /\ UNCHANGED <<tables, locks, clock, uuids, op, arg_id, arg_amt, lk,
                   txnLocals, listLocals, history, csSnap, myTs, invokedDeleted>>

TxnReturn(t) ==
    /\ pc[t] = "t_rel"
    /\ owner' = Released(t)
    /\ IF res[t].st = "ok"
       THEN /\ expected' = [expected EXCEPT ![arg_id[t]] =
                               @ + AmountChange(op[t], arg_amt[t])]
            /\ lastStored' = [lastStored EXCEPT ![arg_id[t]] = new_balance[t]]
            /\ lastRead' = [lastRead EXCEPT ![arg_id[t]] = {}]
       ELSE UNCHANGED <<expected, lastStored, lastRead>>
    /\ Finish(t)
    /\ UNCHANGED <<tables, global_owner, clock, uuids, known, deleted, script>>

\* ---- delete_account ----

\* with self.global_lock:
DeleteAcquire(t) ==
    /\ pc[t] = "d_acq"
    /\ CanAcquireGlobal
    /\ global_owner' = t
    /\ pc' = [pc EXCEPT ![t] = "d_chk"]
    /\ UNCHANGED <<tables, owner, clock, uuids, op, arg_id, arg_amt, lk, txnLocals,
                   listLocals, res, history, csSnap, myTs, invokedDeleted>>

\* if account_number not in self.accounts: raise HTTPException(404)
DeleteCheck(t) ==
    /\ pc[t] = "d_chk"
    /\ IF arg_id[t] \notin accounts
       THEN /\ res' = [res EXCEPT ![t] = Result("NotFound", arg_id[t], 0, 0, 0)]
            /\ pc' = [pc EXCEPT ![t] = "d_rel"]
       ELSE /\ pc' = [pc EXCEPT ![t] = "lk"]
            /\ UNCHANGED res
    /\ UNCHANGED <<tables, locks, clock, uuids, op, arg_id, arg_amt, lk, txnLocals,
                   listLocals, history, csSnap, myTs, invokedDeleted>>

\* del self.accounts[account_number]
DeleteRemove(t) ==
    /\ pc[t] = "d_del"
    /\ accounts' = accounts \ {arg_id[t]}
    /\ pc' = [pc EXCEPT ![t] = "d_dellk"]
    /\ UNCHANGED <<obj, account_locks, locks, clock, uuids, op, arg_id, arg_amt, lk,
                   txnLocals, listLocals, res, history, csSnap, myTs, invokedDeleted>>

\* if account_number in self.account_locks: del self.account_locks[account_number]
DeleteRemoveLock(t) ==
    /\ pc[t] = "d_dellk"
    /\ account_locks' = [account_locks EXCEPT ![arg_id[t]] = NoLock]
    /\ pc' = [pc EXCEPT ![t] = "d_lrel"]
    /\ UNCHANGED <<accounts, obj, locks, clock, uuids, op, arg_id, arg_amt, lk,
                   txnLocals, listLocals, res, history, csSnap, myTs, invokedDeleted>>

\* leaving the inner with-block: release the account lock
DeleteReleaseLock(t) ==
    /\ pc[t] = "d_lrel"
    /\ owner' = Released(t)
    /\ lk' = [lk EXCEPT ![t] = NoLock]
    /\ res' = [res EXCEPT ![t] = Result("ok", arg_id[t], 0, 0, 0)]
    /\ pc' = [pc EXCEPT ![t] = "d_rel"]
    /\ UNCHANGED <<tables, global_owner, clock, uuids, op, arg_id, arg_amt, txnLocals,
                   listLocals, history, csSnap, myTs, invokedDeleted>>

\* leaving the outer with-block: release the ledger-wide lock, return or raise
DeleteReturn(t) ==
    /\ pc[t] = "d_rel"
    /\ global_owner' = IF global_owner = t THEN None ELSE global_owner
    /\ deleted' = IF res[t].st = "ok" THEN deleted \cup {arg_id[t]} ELSE deleted
    /\ lastRead' = IF res[t].st = "ok"
                   THEN [lastRead EXCEPT ![arg_id[t]] = {}]
                   ELSE lastRead
    /\ Finish(t)
    /\ UNCHANGED <<tables, owner, clock, uuids, known, expected, lastStored, script>>

\* ---- list_all_accounts ----

\* mutant: list_all_accounts iterates without the ledger-wide lock
ListAcquireNoLock(t) ==
    /\ pc[t] = "l_acq"
    /\ UNCHANGED global_owner
    /\ pc' = [pc EXCEPT ![t] = "l_next"]
    /\ UNCHANGED <<tables, owner, clock, uuids, op, arg_id, arg_amt, lk, txnLocals,
                   listLocals, res, history, csSnap, myTs, invokedDeleted>>

\* with self.global_lock:
ListAcquire(t) ==
    /\ pc[t] = "l_acq"
    /\ CanAcquireGlobal
    /\ global_owner' = t
    /\ pc' = [pc EXCEPT ![t] = "l_next"]
    /\ UNCHANGED <<tables, owner, clock, uuids, op, arg_id, arg_amt, lk, txnLocals,
                   listLocals, res, history, csSnap, myTs, invokedDeleted>>

\* for account_number, account in self.accounts.items():
ListNext(t) ==
    /\ pc[t] = "l_next"
    /\ IF NextKey(cur[t]) = {}
       THEN /\ res' = [res EXCEPT ![t] = Result("ok", BogusId, 0, Len(accounts_info[t]), 0)]
            /\ pc' = [pc EXCEPT ![t] = "l_rel"]
            /\ UNCHANGED cur
       ELSE /\ cur' = [cur EXCEPT ![t] = Min(NextKey(cur[t]))]
            /\ pc' = [pc EXCEPT ![t] = "l_bal"]
            /\ UNCHANGED res
    /\ UNCHANGED <<tables, locks, clock, uuids, op, arg_id, arg_amt, lk, txnLocals,
                   tmp_bal, accounts_info, history, csSnap, myTs, invokedDeleted>>

\* "balance": account.balance
ListReadBalance(t) ==
    /\ pc[t] = "l_bal"
    /\ tmp_bal' = [tmp_bal EXCEPT ![t] = obj[cur[t]].balance]
    /\ pc' = [pc EXCEPT ![t] = "l_ts"]
    /\ UNCHANGED <<tables, locks, clock, uuids, op, arg_id, arg_amt, lk, txnLocals,
                   cur, accounts_info, res, history, csSnap, myTs, invokedDeleted>>

\* "created_at": ..., "last_updated": account.last_updated.isoformat(); append
ListReadTimestamp(t) ==
    /\ pc[t] = "l_ts"
    /\ accounts_info' = [accounts_info EXCEPT ![t] =
                            Append(@, [id |-> cur[t],
                                       balance |-> tmp_bal[t],
                                       created_at |-> obj[cur[t]].created_at,
                                       last_updated |-> obj[cur[t]].last_updated])]
    /\ pc' = [pc EXCEPT ![t] = "l_next"]
    /\ UNCHANGED <<tables, locks, clock, uuids, op, arg_id, arg_amt, lk, txnLocals,
                   cur, tmp_bal, res, history, csSnap, myTs, invokedDeleted>>

ListReturn(t) ==
    /\ pc[t] = "l_rel"
    /\ global_owner' = IF global_owner = t THEN None ELSE global_owner
    /\ Finish(t)
    /\ UNCHANGED <<tables, owner, clock, uuids, history>>

\* ---- the request layer: routers/accounts.py ----

\* a client request to POST /accounts, .../deposit or .../withdraw: the body is
\* parsed into AccountCreate / TransactionRequest before the endpoint runs
RequestCreate(t, inits, budget) ==
    \E b \in inits :
        /\ Cardinality(uuids) + Cardinality(Creating)
               + Cardinality({u \in Threads : pc[u] = "r_val" /\ op[u] = "create"}) < budget
        /\ Begin(t, "create", BogusId, b, "r_val")
        /\ UNCHANGED script

RequestDeposit(t, ids, amts) ==
    \E i \in Targets \cap ids, a \in amts :
        /\ i \in AllocIds => obj[i].balance + a <= MaxBalance
        /\ Begin(t, "deposit", i, a, "r_val")
        /\ UNCHANGED script

RequestWithdraw(t, ids, amts) ==
    \E i \in Targets \cap ids, a \in amts :
        /\ Begin(t, "withdraw", i, a, "r_val")
        /\ UNCHANGED script

\* mutant: the request body is passed to the service unvalidated
RouterValidateSkips(t) ==
    /\ pc[t] = "r_val"
    /\ pc' = [pc EXCEPT ![t] = IF op[t] = "create" THEN "c_acq" ELSE "lk"]
    /\ UNCHANGED <<tables, locks, clock, uuids, op, arg_id, arg_amt, lk, txnLocals,
                   listLocals, res, history, csSnap, myTs, invokedDeleted>>

\* Field(gt=0, le=MAX_TRANSACTION_AMOUNT) / Field(ge=0, le=MAX_TRANSACTION_AMOUNT):
\* a body that fails validation is answered without calling the service
RouterValidate(t) ==
    /\ pc[t] = "r_val"
    /\ IF (IF op[t] = "create" THEN ValidInitial(arg_amt[t]) ELSE ValidAmount(arg_amt[t]))
       THEN /\ pc' = [pc EXCEPT ![t] = IF op[t] = "create" THEN "c_acq" ELSE "lk"]
            /\ UNCHANGED res
       ELSE /\ res' = [res EXCEPT ![t] = Result("InvalidAmount", arg_id[t], 0, 0, 0)]
            /\ pc' = [pc EXCEPT ![t] = "r_rel"]
    /\ UNCHANGED <<tables, locks, clock, uuids, op, arg_id, arg_amt, lk, txnLocals,
                   listLocals, history, csSnap, myTs, invokedDeleted>>

\* the validation error response is sent
RouterReturn(t) ==
    /\ pc[t] = "r_rel"
    /\ Finish(t)
    /\ UNCHANGED <<tables, locks, clock, uuids, history>>

RouterSteps(t) ==
    \/ RouterValidate(t)
    \/ RouterReturn(t)

\* the status code of the response the client receives for each outcome:
\* HTTPException(status_code=...) in the service, 500 from the routers' except
\* clause, 422 for a body that fails validation
StatusCode(st) ==
    CASE st = "InsufficientFunds" -> 400
      [] st = "NotFound" -> 404
      [] st = "CapacityExceeded" -> 507
      [] st = "InvalidAmount" -> 422
      [] st = "ValidationError" -> 500
      [] OTHER -> 200

\* the detail text of the response
Detail(st) ==
    CASE st = "InsufficientFunds" -> "Insufficient funds"
      [] st = "NotFound" -> "Account not found"
      [] st = "CapacityExceeded" -> "Maximum number of accounts reached"
      [] st = "InvalidAmount" -> "validation error"
      [] st = "ValidationError" -> "Internal server error during account creation"
      [] OTHER -> ""

\* ---- the steps of each method ----

CreateSteps(t) ==
    \/ CreateAcquire(t)
    \/ CreateCheck(t)
    \/ CreateInsert(t)
    \/ CreateLock(t)
    \/ CreateReturn(t)

LockSteps(t) ==
    \/ EvalLock(t)
    \/ StoreLock(t)
    \/ AcquireLock(t)

GetSteps(t) ==
    \/ GetLookup(t)
    \/ GetRead(t)
    \/ GetReturn(t)

TxnSteps(t) ==
    \/ TxnLookup(t)
    \/ TxnRead(t)
    \/ TxnWriteBalance(t)
    \/ TxnWriteTimestamp(t)
    \/ TxnStore(t)
    \/ TxnRespond(t)
    \/ TxnReturn(t)

DeleteSteps(t) ==
    \/ DeleteAcquire(t)
    \/ DeleteCheck(t)
    \/ DeleteRemove(t)
    \/ DeleteRemoveLock(t)
    \/ DeleteReleaseLock(t)
    \/ DeleteReturn(t)

ListSteps(t) ==
    \/ ListAcquire(t)
    \/ ListNext(t)
    \/ ListReadBalance(t)
    \/ ListReadTimestamp(t)
    \/ ListReturn(t)

\* every method, on a ledger that creates one account
Next ==
    \E t \in Threads :
        \/ InvokeCreate(t, Amounts, 1)
        \/ InvokeGetBalance(t, AllocIds)
        \/ InvokeDelete(t, AllocIds)
        \/ InvokeList(t)
        \/ InvokeDeposit(t, AllocIds, Amounts)
        \/ InvokeWithdraw(t, AllocIds, Amounts)
        \/ CreateSteps(t)
        \/ LockSteps(t)
        \/ GetSteps(t)
        \/ TxnSteps(t)
        \/ DeleteSteps(t)
        \/ ListSteps(t)

Spec == Init /\ [][Next]_vars

\* create, delete and list on a ledger that can fill up and be emptied again
NextCap ==
    \E t \in Threads :
        \/ InvokeCreate(t, {0}, NumIds)
        \/ InvokeDelete(t, Ids)
        \/ InvokeList(t)
        \/ CreateSteps(t)
        \/ EvalLock(t)
        \/ AcquireLock(t)
        \/ DeleteSteps(t)
        \/ ListSteps(t)

SpecCap == Init /\ [][NextCap]_vars

\* unit transactions and reads on a ledger of two accounts
NextTwo ==
    \E t \in Threads :
        \/ InvokeCreate(t, 0..1, 2)
        \/ InvokeGetBalance(t, AllocIds)
        \/ InvokeDeposit(t, AllocIds, {1})
        \/ InvokeWithdraw(t, AllocIds, {1})
        \/ CreateSteps(t)
        \/ EvalLock(t)
        \/ AcquireLock(t)
        \/ GetSteps(t)
        \/ TxnSteps(t)

SpecTwo == Init /\ [][NextTwo]_vars

\* every method that takes an identifier, on a ledger of one account, called with
\* that account's identifier before and after its deletion and with an unknown one
NextMissing ==
    \E t \in Threads :
        \/ InvokeCreate(t, {1}, 1)
        \/ InvokeGetBalance(t, Ids)
        \/ InvokeDelete(t, Ids)
        \/ InvokeDeposit(t, Ids, {1})
        \/ InvokeWithdraw(t, Ids, {1})
        \/ CreateSteps(t)
        \/ LockSteps(t)
        \/ GetSteps(t)
        \/ TxnSteps(t)
        \/ DeleteSteps(t)

SpecMissing == Init /\ [][NextMissing]_vars

\* run_comprehensive_test: one caller issues the calls of the test one after the
\* other, each on the account the first call created
Driver == Min(Threads)

ScenarioInvoke(t) ==
    /\ t = Driver
    /\ script' = script + 1
    /\ \/ script = 0 /\ Begin(t, "create", BogusId, 500, "c_acq")
       \/ \E i \in known :
            \/ script = 1 /\ Begin(t, "deposit", i, 250, "lk")
            \/ script = 2 /\ Begin(t, "withdraw", i, 100, "lk")
            \/ script = 3 /\ Begin(t, "withdraw", i, 1000, "lk")
            \/ script = 4 /\ Begin(t, "delete", i, 0, "d_acq")
            \/ script = 5 /\ Begin(t, "get_balance", i, 0, "lk")

\* the test scenario, with the other callers reading and listing beside it
NextScenario ==
    \E t \in Threads :
        \/ ScenarioInvoke(t)
        \/ t # Driver /\ InvokeGetBalance(t, AllocIds)
        \/ t # Driver /\ InvokeList(t)
        \/ CreateSteps(t)
        \/ LockSteps(t)
        \/ GetSteps(t)
        \/ TxnSteps(t)
        \/ DeleteSteps(t)
        \/ ListSteps(t)

SpecScenario == Init /\ [][NextScenario]_vars

\* client requests through the routers on a ledger that can fill up: creates,
\* and deposits and withdrawals with valid and invalid amounts on one account's
\* identifier and on an unknown one
NextHttp ==
    \E t \in Threads :
        \/ RequestCreate(t, {0}, NumIds)
        \/ RequestDeposit(t, {Min(AllocIds)}, 0..1)
        \/ RequestWithdraw(t, {BogusId, Min(AllocIds)}, 1..2)
        \/ RouterSteps(t)
        \/ CreateSteps(t)
        \/ LockSteps(t)
        \/ TxnSteps(t)

SpecHttp == Init /\ [][NextHttp]_vars

\* a batch of create calls on an empty ledger, issued by all callers side by
\* side, with no delete; script counts the calls issued so far
BatchCreate(t) ==
    /\ script < BatchSize
    /\ script' = script + 1
    /\ Begin(t, "create", BogusId, 0, "c_acq")

NextBatch ==
    \E t \in Threads :
        \/ BatchCreate(t)
        \/ CreateSteps(t)

SpecBatch == Init /\ [][NextBatch]_vars

\* creates with a unit balance, reads, and deletes of the first account, with no
\* deposit or withdrawal, on a ledger that fills up and hands out further
\* identifiers after the deletion
NextFresh ==
    \E t \in Threads :
        \/ InvokeCreate(t, {1}, NumIds)
        \/ InvokeGetBalance(t, AllocIds)
        \/ InvokeDelete(t, {Min(AllocIds)})
        \/ CreateSteps(t)
        \/ LockSteps(t)
        \/ GetSteps(t)
        \/ DeleteSteps(t)

SpecFresh == Init /\ [][NextFresh]_vars

\* withdrawals only, by all callers side by side, on one account created with
\* balance MaxBalance
NextSpend ==
    \E t \in Threads :
        \/ InvokeCreate(t, {MaxBalance}, 1)
        \/ InvokeWithdraw(t, AllocIds, 1..MaxAmount)
        \/ CreateSteps(t)
        \/ EvalLock(t)
        \/ AcquireLock(t)
        \/ TxnSteps(t)

SpecSpend == Init /\ [][NextSpend]_vars

\* ---- properties ----

IsTxn(t) == op[t] \in TxnOps
HasResult(t) == res[t].st # "none"

\* the caller holds the account lock and has not left its with-block yet
InSection(t) ==
    pc[t] \in {"g_get", "g_read", "g_rel",
               "t_get", "t_read", "t_wbal", "t_wts", "t_store", "t_resp", "t_rel"}

\* ... and _get_account_unsafe has found the account
FoundAccount(t) ==
    \/ pc[t] \in {"g_read", "t_read", "t_wbal", "t_wts", "t_store", "t_resp"}
    \/ pc[t] \in {"g_rel", "t_rel"} /\ res[t].st # "NotFound"

\* the caller has read the balance and not yet stored the new balance and timestamp
Mutating(t) == pc[t] \in {"t_wbal", "t_wts", "t_store"}

\* C1: every account in the table has balance >= 0, and no get_balance result,
\* list entry or transaction result reports a negative balance.
C1_BalanceNonNegative ==
    /\ \A i \in accounts : obj[i].balance >= 0
    /\ \A t \in Threads :
        /\ (op[t] \in TxnOps \cup {"get_balance"} /\ res[t].st = "ok") => res[t].bal >= 0
        /\ \A k \in 1..Len(accounts_info[t]) : accounts_info[t][k].balance >= 0

\* a withdrawal that empties the account has succeeded while another caller waits
C1_Witness ==
    \E t \in Threads, u \in Threads :
        /\ op[t] = "withdraw" /\ pc[t] = "t_rel" /\ res[t].st = "ok"
        /\ arg_amt[t] > 0 /\ res[t].bal = 0
        /\ u # t /\ IsTxn(u) /\ arg_id[u] = arg_id[t] /\ pc[u] = "acq"

\* C2: once no deposit or withdrawal is in flight on an account, its balance is
\* its initial balance plus the successful deposits minus the successful withdrawals.
Quiescent(i) == \A t \in Threads : IsTxn(t) => arg_id[t] # i

C2_Conservation ==
    \A i \in known : Quiescent(i) => obj[i].balance = expected[i]

\* two deposits invoked at the same balance have both been applied
C2_Witness ==
    \E i \in known : Quiescent(i) /\ i \in accounts /\ expected[i] > MaxBalance

\* C3: while a caller is between reading a live account's balance and storing the
\* new balance and timestamp, no other get_balance, deposit or withdraw on that
\* account is inside its critical section.
C3_MutualExclusion ==
    \A t \in Threads, u \in Threads :
        (t # u /\ Mutating(t) /\ arg_id[t] \in accounts /\ arg_id[u] = arg_id[t])
            => ~InSection(u)

\* a caller is in the middle of its update while another waits for the same lock
C3_Witness ==
    \E t \in Threads, u \in Threads :
        /\ t # u /\ Mutating(t) /\ arg_id[t] \in accounts
        /\ arg_id[u] = arg_id[t] /\ pc[u] = "acq" /\ lk[u] = lk[t]

\* C4: a successful get_balance returns the balance stored by the most recently
\* completed deposit or withdrawal on the account, or the initial balance.
C4_ReadSeesLastCompleted ==
    \A t \in Threads :
        (op[t] = "get_balance" /\ pc[t] = "g_rel" /\ res[t].st = "ok")
            => res[t].bal = lastStored[arg_id[t]]

\* a read returns a balance a completed mutation stored while the next mutation waits
C4_Witness ==
    \E t \in Threads, u \in Threads :
        /\ op[t] = "get_balance" /\ pc[t] = "g_rel" /\ res[t].st = "ok"
        /\ obj[arg_id[t]].last_updated > obj[arg_id[t]].created_at
        /\ u # t /\ IsTxn(u) /\ arg_id[u] = arg_id[t] /\ pc[u] = "acq"

\* C5: a successful deposit or withdraw returns the balance it read plus or minus
\* the amount, and the new_balance and timestamp it returns are the balance and
\* last_updated this call stored in the account.
C5_ResponseMatchesStore ==
    \A t \in Threads :
        (IsTxn(t) /\ pc[t] = "t_rel" /\ res[t].st = "ok") =>
            /\ op[t] = "deposit" => res[t].bal = old_balance[t] + arg_amt[t]
            /\ op[t] = "withdraw" => res[t].bal = old_balance[t] - arg_amt[t]
            /\ old_balance[t] = csSnap[t].balance
            /\ obj[arg_id[t]].balance = res[t].bal
            /\ obj[arg_id[t]].last_updated = res[t].ts
            /\ res[t].ts = myTs[t]

\* a withdrawal has stored a later timestamp and a smaller balance while another
\* transaction on the account waits
C5_Witness ==
    \E t \in Threads, u \in Threads :
        /\ op[t] = "withdraw" /\ pc[t] = "t_rel" /\ res[t].st = "ok"
        /\ arg_amt[t] > 0 /\ res[t].ts > csSnap[t].last_updated
        /\ u # t /\ IsTxn(u) /\ arg_id[u] = arg_id[t] /\ pc[u] = "acq"

\* C6: once delete has returned success for an identifier it is never in the
\* account table again, and every get_balance, deposit, withdraw or delete invoked
\* afterwards on it fails with NotFound.
C6_DeletionFinality ==
    /\ deleted \cap accounts = {}
    /\ \A t \in Threads : (invokedDeleted[t] /\ HasResult(t)) => res[t].st = "NotFound"

\* a transaction invoked after the delete returned has failed with NotFound
C6_Witness ==
    \E t \in Threads :
        IsTxn(t) /\ invokedDeleted[t] /\ pc[t] = "t_rel" /\ res[t].st = "NotFound"

C7_InSectionStaysLive ==
    \A t \in Threads :
        (op[t] \in TxnOps \cup {"get_balance"} /\ InSection(t) /\ FoundAccount(t)) =>
            /\ arg_id[t] \in accounts
            /\ HasResult(t) => res[t].st \in {"ok", "InsufficientFunds"}

C7_RemovalStep ==
    \A i \in AllocIds :
        (i \in accounts /\ i \notin accounts') =>
            \A t \in Threads :
                (op[t] \in TxnOps \cup {"get_balance"} /\ arg_id[t] = i) =>
                    ~(InSection(t) /\ FoundAccount(t))

C7_LateCallSteps ==
    \A t \in Threads :
        /\ (pc[t] \in {"t_get", "g_get"} /\ pc'[t] # pc[t] /\ arg_id[t] \notin accounts) =>
                (res'[t].st = "NotFound" /\ tables' = tables)
        /\ (pc[t] \in {"t_rel", "g_rel"} /\ pc'[t] # pc[t] /\ res[t].st = "NotFound") =>
                tables' = tables

C8_Capacity == Cardinality(accounts) <= MAX_ACCOUNTS

\* the table is full and a create is being turned away
C8_Witness ==
    /\ Cardinality(accounts) = MAX_ACCOUNTS
    /\ \E t \in Threads :
        op[t] = "create" /\ pc[t] = "c_rel" /\ res[t].st = "CapacityExceeded"

\* C9: with exactly MAX_ACCOUNTS accounts in the table create fails with
\* CapacityExceeded and adds neither an account nor a lock; with fewer (after a
\* delete) the create goes on to insert its account and succeeds.
C9_CheckStep ==
    \A t \in Threads :
        (pc[t] = "c_chk" /\ pc'[t] # "c_chk") =>
            IF Cardinality(accounts) = MAX_ACCOUNTS
            THEN /\ pc'[t] = "c_rel" /\ res'[t].st = "CapacityExceeded"
                 /\ tables' = tables
            ELSE pc'[t] = "c_new"

C9_InsertStep ==
    \A t \in Threads :
        (pc[t] = "c_new" /\ pc'[t] # "c_new" /\ arg_amt[t] >= 0) =>
            /\ Cardinality(accounts') = Cardinality(accounts) + 1
            /\ pc'[t] = "c_lk"

C9_ReturnStep ==
    \A t \in Threads :
        (pc[t] = "c_rel" /\ pc'[t] = "idle") =>
            /\ tables' = tables
            /\ res[t].st = "CapacityExceeded" => Cardinality(accounts) = MAX_ACCOUNTS
            /\ res[t].st = "ok" => (res[t].id \in accounts /\ account_locks[res[t].id] # NoLock)

\* C9, whole: the capacity check, the insertion and the return of create
C9_FullThenFreed == [][C9_CheckStep /\ C9_InsertStep /\ C9_ReturnStep]_vars

\* the table was full, one account was deleted, and the next create has succeeded
C9_Witness ==
    \E t \in Threads :
        /\ op[t] = "create" /\ pc[t] = "c_rel" /\ res[t].st = "ok"
        /\ deleted # {}
        /\ Cardinality(uuids) > MAX_ACCOUNTS
        /\ Cardinality(accounts) = MAX_ACCOUNTS

\* C10: a withdraw that fails with InsufficientFunds leaves the account's balance
\* and last_updated as it found them, and every other account unchanged.
C10_FailedState ==
    \A t \in Threads :
        (op[t] = "withdraw" /\ res[t].st = "InsufficientFunds") =>
            /\ pc[t] = "t_rel"
            /\ obj[arg_id[t]] = csSnap[t]

C10_FailingSteps ==
    \A t \in Threads :
        (/\ op[t] = "withdraw" /\ pc'[t] # pc[t]
         /\ (res'[t].st = "InsufficientFunds" \/ res[t].st = "InsufficientFunds")) =>
            /\ obj' = obj
            /\ accounts' = accounts

\* C10, whole: the state after the failure and the steps that lead to it
C10_FailedWithdrawChangesNothing ==
    /\ []C10_FailedState
    /\ [][C10_FailingSteps]_vars

\* a withdraw has failed on one account while a second account holds money
C10_Witness ==
    \E t \in Threads, j \in accounts :
        /\ op[t] = "withdraw" /\ pc[t] = "t_rel" /\ res[t].st = "InsufficientFunds"
        /\ j # arg_id[t] /\ obj[j].balance > 0 /\ arg_id[t] \in accounts

\* C11: deposit_money and withdraw_money called with an amount <= 0 or above
\* MAX_TRANSACTION_AMOUNT never reach a write and end with InvalidAmount.
C11_LedgerRejectsInvalidAmount ==
    \A t \in Threads :
        (IsTxn(t) /\ ~ValidAmount(arg_amt[t])) =>
            /\ pc[t] \notin {"t_wbal", "t_wts", "t_store", "t_resp"}
            /\ HasResult(t) => res[t].st = "InvalidAmount"

\* C12: create_account called with an initial balance below 0 or above
\* MAX_TRANSACTION_AMOUNT inserts nothing and ends with InvalidAmount.
C12_LedgerRejectsInvalidInitial ==
    \A t \in Threads :
        (op[t] = "create" /\ ~ValidInitial(arg_amt[t])) =>
            /\ pc[t] # "c_lk"
            /\ HasResult(t) => res[t].st = "InvalidAmount"

\* a call that names an account, while that account is not in the table
Absent(t) ==
    /\ op[t] \in {"get_balance", "deposit", "withdraw", "delete"}
    /\ arg_id[t] \notin accounts

\* the membership test of a call on an absent identifier answers NotFound
C13_LookupStep ==
    \A t \in Threads :
        (Absent(t) /\ pc[t] \in {"g_get", "t_get", "d_chk"} /\ pc'[t] # pc[t]) =>
            res'[t].st = "NotFound"

\* no step of a call on an absent identifier changes the account table
C13_FrameStep ==
    \A t \in Threads :
        (Absent(t) /\ pc'[t] # pc[t]) => UNCHANGED <<accounts, obj>>

\* a call on an identifier that create_account never returned ends with NotFound
C13_NeverCreated ==
    \A t \in Threads :
        (Absent(t) /\ arg_id[t] \notin uuids /\ HasResult(t)) => res[t].st = "NotFound"

\* C13: get_balance, deposit_money, withdraw_money and delete_account on an
\* identifier that is not in the account table (never created, or deleted) fail
\* with NotFound and leave membership, balances and timestamps unchanged.
C13_MissingFailsNotFound ==
    /\ []C13_NeverCreated
    /\ [][C13_LookupStep /\ C13_FrameStep]_vars

\* a deposit on an unknown identifier has failed next to a live funded account
C13_Witness ==
    \E t \in Threads :
        /\ op[t] = "deposit" /\ arg_id[t] = BogusId
        /\ pc[t] = "t_rel" /\ res[t].st = "NotFound"
        /\ \E i \in accounts : obj[i].balance > 0

\* the caller is blocked in "with self.global_lock" / "with self.account_locks[..]"
\* because caller u holds that lock
WaitsFor(t, u) ==
    /\ u # t
    /\ \/ pc[t] \in {"c_acq", "d_acq", "l_acq"} /\ global_owner = u
       \/ pc[t] = "acq" /\ owner[lk[t]] = u

\* the steps caller t can take inside a call
ThreadSteps(t) ==
    CreateSteps(t) \/ LockSteps(t) \/ GetSteps(t) \/ TxnSteps(t) \/ DeleteSteps(t)
        \/ ListSteps(t)

\* C14: deadlock freedom: there is no set of callers each waiting for a lock
\* held by another caller of the set, and while any call is in progress some
\* caller inside a call can take a step.
C14_DeadlockFree ==
    /\ \A S \in SUBSET Threads :
           S # {} => \E t \in S : \A u \in S : ~WaitsFor(t, u)
    /\ (\E t \in Threads : pc[t] # "idle") =>
           \E t \in Threads : pc[t] # "idle" /\ ENABLED ThreadSteps(t)

\* delete_account holds the ledger-wide lock and waits for the account lock that
\* a get_balance caller holds, while that caller can go on
C14_Witness ==
    \E t \in Threads, u \in Threads :
        /\ op[t] = "delete" /\ global_owner = t /\ WaitsFor(t, u)
        /\ op[u] = "get_balance" /\ pc[u] = "g_read"

\* a call that works on one account under that account's lock only
AccountOp(t) == op[t] \in {"get_balance", "deposit", "withdraw"}

\* C15: get_balance, deposit_money and withdraw_money on account A hold neither
\* the ledger-wide lock nor any lock but the one they took for A, never wait for
\* the lock of another account, and can take their next step whenever A's lock
\* is not held by another caller, whoever holds the ledger-wide lock or B's lock.
C15_OwnLockOnly ==
    \A t \in Threads :
        AccountOp(t) =>
            /\ global_owner # t
            /\ \A l \in LockObjs : owner[l] = t => l = lk[t]
            /\ \A b \in accounts \ {arg_id[t]} :
                   pc[t] = "acq" => lk[t] # account_locks[b]
            /\ (pc[t] = "acq" => owner[lk[t]] = None) =>
                   ENABLED (LockSteps(t) \/ GetSteps(t) \/ TxnSteps(t))

\* a deposit is about to take the free lock of its account while the other caller
\* is in the middle of an update of another account
C15_Witness ==
    \E t \in Threads, u \in Threads :
        /\ op[t] = "deposit" /\ pc[t] = "acq" /\ owner[lk[t]] = None
        /\ IsTxn(u) /\ Mutating(u) /\ arg_id[u] # arg_id[t]

\* a step of a deposit or withdrawal leaves the membership of the table and the
\* balance and timestamps of every other account as they were
C16_FrameStep ==
    \A t \in Threads :
        (IsTxn(t) /\ pc'[t] # pc[t]) =>
            /\ accounts' = accounts
            /\ \A j \in AllocIds \ {arg_id[t]} : obj'[j] = obj[j]

\* an account with no transaction in flight satisfies its own equation, whatever
\* is in flight on the other accounts
C16_OwnEquation ==
    \A i \in accounts :
        Quiescent(i) =>
            obj[i].balance = expected[i] /\ obj[i].balance = lastStored[i]

\* C16: isolation across accounts: a deposit or withdrawal on account A changes
\* no other account and not the membership of the table, and with concurrent
\* transactions on distinct accounts each balance matches its own equation.
C16_Isolation ==
    /\ []C16_OwnEquation
    /\ [][C16_FrameStep]_vars

\* two transactions are in the middle of updating two different accounts
C16_Witness ==
    \E t \in Threads, u \in Threads :
        /\ IsTxn(t) /\ IsTxn(u) /\ arg_id[t] # arg_id[u]
        /\ pc[t] = "t_wts" /\ pc[u] = "t_wts"
        /\ obj[arg_id[t]].balance # obj[arg_id[u]].balance

\* the identifiers that have an entry in self.account_locks
LockKeys == {i \in Ids : account_locks[i] # NoLock}

\* C17: whenever no create_account or delete_account is in progress, the
\* identifiers with an entry in the lock table are exactly the identifiers in the
\* account table, also after calls on unknown or deleted identifiers.
C17_LockTableMatches ==
    (\A t \in Threads : op[t] \notin {"create", "delete"}) => LockKeys = accounts

\* the identifiers of the entries a list_all_accounts call has collected
ListedIds(t) == {accounts_info[t][k].id : k \in 1..Len(accounts_info[t])}

\* C18: when list_all_accounts has built its result (still inside the
\* ledger-wide lock), total_accounts is the number of entries, no identifier is
\* listed twice, and the listed identifiers are exactly the account table of
\* that moment, whatever create_account and delete_account calls run beside it.
C18_ListSnapshot ==
    \A t \in Threads :
        (op[t] = "list" /\ pc[t] = "l_rel") =>
            /\ res[t].amt = Len(accounts_info[t])
            /\ Cardinality(ListedIds(t)) = Len(accounts_info[t])
            /\ ListedIds(t) = accounts

\* a listing of a full table is complete after an earlier account was deleted,
\* while the other caller waits to create or delete
C18_Witness ==
    \E t \in Threads, u \in Threads :
        /\ op[t] = "list" /\ pc[t] = "l_rel" /\ res[t].amt = MAX_ACCOUNTS
        /\ deleted # {}
        /\ pc[u] \in {"c_acq", "d_acq"}

\* a get_balance that found its account returns what every get_balance on that
\* account returned since the last completed deposit, withdrawal or delete on it
C19_SameAsLastRead ==
    \A t \in Threads :
        (op[t] = "get_balance" /\ pc[t] = "g_rel" /\ res[t].st = "ok") =>
            lastRead[arg_id[t]] \subseteq {res[t].bal}

\* no step of get_balance changes an Account object or the table's membership
C19_ReadStep ==
    \A t \in Threads :
        (op[t] = "get_balance" /\ pc'[t] # pc[t]) => UNCHANGED <<accounts, obj>>

\* C19: idempotent read: two get_balance calls on the same live account with no
\* deposit, withdrawal or delete on it completing in between return the same
\* balance, and get_balance changes no balance and no timestamp.
C19_IdempotentRead ==
    /\ []C19_SameAsLastRead
    /\ [][C19_ReadStep]_vars

\* a second get_balance is returning a funded account's balance after an earlier
\* one has returned it
C19_Witness ==
    \E t \in Threads :
        /\ op[t] = "get_balance" /\ pc[t] = "g_rel" /\ res[t].st = "ok"
        /\ res[t].bal > 0 /\ lastRead[arg_id[t]] = {res[t].bal}

\* C20: the sequential scenario: create with 500, deposit 250 gives 750,
\* withdraw 100 gives 650, withdraw 1000 fails with InsufficientFunds and the
\* balance stays 650, delete succeeds, and a following get_balance fails with
\* NotFound.
C20_Scenario ==
    /\ (script = 1 /\ HasResult(Driver)) =>
           /\ res[Driver].st = "ok" /\ res[Driver].bal = 500
           /\ obj[res[Driver].id].balance = 500
    /\ (script = 2 /\ HasResult(Driver)) =>
           /\ res[Driver].st = "ok" /\ res[Driver].bal = 750
           /\ obj[arg_id[Driver]].balance = 750
    /\ (script = 3 /\ HasResult(Driver)) =>
           /\ res[Driver].st = "ok" /\ res[Driver].bal = 650
           /\ obj[arg_id[Driver]].balance = 650
    /\ (script = 4 /\ HasResult(Driver)) =>
           /\ res[Driver].st = "InsufficientFunds"
           /\ arg_id[Driver] \in accounts /\ obj[arg_id[Driver]].balance = 650
    /\ (script = 4 /\ pc[Driver] = "idle") => \A i \in accounts : obj[i].balance = 650
    /\ (script = 5 /\ HasResult(Driver)) =>
           res[Driver].st = "ok" /\ arg_id[Driver] \notin accounts
    /\ (script = 6 /\ HasResult(Driver)) => res[Driver].st = "NotFound"

\* the last call of the scenario has failed with NotFound
C20_Witness ==
    /\ script = 6 /\ op[Driver] = "get_balance" /\ pc[Driver] = "g_rel"
    /\ res[Driver].st = "NotFound"
    /\ deleted # {} /\ accounts = {}

\* the call has ended in a failure
Failed(t) == res[t].st \notin {"none", "ok"}

\* why a failed request failed, read off its arguments and the table
CauseInvalid(t) ==
    \/ IsTxn(t) /\ ~ValidAmount(arg_amt[t])
    \/ op[t] = "create" /\ ~ValidInitial(arg_amt[t])
CauseInsufficient(t) ==
    op[t] = "withdraw" /\ ValidAmount(arg_amt[t]) /\ arg_id[t] \in accounts
CauseNotFound(t) ==
    IsTxn(t) /\ ValidAmount(arg_amt[t]) /\ arg_id[t] \notin accounts
CauseCapacity(t) ==
    op[t] = "create" /\ ValidInitial(arg_amt[t])

\* what the client can tell apart: status code and detail
Outcome(t) == <<StatusCode(res[t].st), Detail(res[t].st)>>

\* C21: failures of different kinds reach the client as different outcomes: an
\* insufficient-funds failure never looks like an invalid-amount failure, a
\* not-found failure never like a capacity failure (nor any other pair).
C21_FailuresDistinct ==
    \A t \in Threads, u \in Threads :
        (Failed(t) /\ Failed(u)) =>
            /\ (CauseInsufficient(t) /\ CauseInvalid(u)) => Outcome(t) # Outcome(u)
            /\ (CauseNotFound(t) /\ CauseCapacity(u)) => Outcome(t) # Outcome(u)
            /\ (CauseInsufficient(t) /\ (CauseNotFound(u) \/ CauseCapacity(u))) =>
                   Outcome(t) # Outcome(u)
            /\ (CauseInvalid(t) /\ (CauseNotFound(u) \/ CauseCapacity(u))) =>
                   Outcome(t) # Outcome(u)

\* a withdrawal over the balance and a withdrawal over the limit have both failed
C21_Witness ==
    \E t \in Threads, u \in Threads :
        /\ Failed(t) /\ CauseInsufficient(t) /\ pc[t] = "t_rel"
        /\ Failed(u) /\ CauseInvalid(u) /\ op[u] = "withdraw" /\ pc[u] = "r_rel"

\* C22: a create rejected because the table holds MAX_ACCOUNTS accounts is
\* reported to the client with status 400.
C22_CapacityIsBadRequest ==
    \A t \in Threads :
        (op[t] = "create" /\ res[t].st = "CapacityExceeded") =>
            StatusCode(res[t].st) = 400

\* all six methods with unit amounts on one account, under a fair scheduler:
\* a caller that can take a step again and again eventually takes one, also when
\* the step is the acquisition of a lock that other callers keep taking
NextLive ==
    \E t \in Threads :
        \/ InvokeCreate(t, {1}, 1)
        \/ InvokeGetBalance(t, AllocIds)
        \/ InvokeDelete(t, AllocIds)
        \/ InvokeList(t)
        \/ InvokeDeposit(t, AllocIds, {1})
        \/ InvokeWithdraw(t, AllocIds, {1})
        \/ CreateSteps(t)
        \/ LockSteps(t)
        \/ GetSteps(t)
        \/ TxnSteps(t)
        \/ DeleteSteps(t)
        \/ ListSteps(t)

\* the steps at which a caller may have to wait: with <lock>: __enter__
AcquireSteps(t) ==
    CreateAcquire(t) \/ DeleteAcquire(t) \/ ListAcquire(t) \/ AcquireLock(t)

\* every caller that can step does step (the scheduler runs every thread), and a
\* caller that finds its lock free again and again eventually gets it
Fairness ==
    \A t \in Threads : WF_vars(ThreadSteps(t)) /\ SF_vars(AcquireSteps(t))

SpecLive == Init /\ [][NextLive]_vars /\ Fairness

\* the positions at which a call hands its result to the caller
ReturnPcs == {"c_rel", "g_rel", "t_rel", "d_rel", "l_rel"}

C24_DepositNeverInsufficient ==
    \A t \in Threads :
        op[t] = "deposit" =>
            /\ res[t].st # "InsufficientFunds"
            /\ (pc[t] = "t_rel" /\ res[t].st # "NotFound") =>
                   /\ res[t].st = "ok"
                   /\ obj[arg_id[t]].balance = csSnap[t].balance + arg_amt[t]

\* C25: a withdraw_money of a positive amount that found the account fails with
\* InsufficientFunds exactly when balance - amount < 0 at the check; otherwise it
\* succeeds and leaves balance - amount, so withdrawing the whole balance leaves 0.
C25_InsufficientIff ==
    \A t \in Threads :
        (op[t] = "withdraw" /\ arg_amt[t] > 0 /\ pc[t] = "t_rel"
             /\ res[t].st # "NotFound") =>
            /\ res[t].st \in {"ok", "InsufficientFunds"}
            /\ res[t].st = "InsufficientFunds" <=> old_balance[t] - arg_amt[t] < 0
            /\ old_balance[t] = csSnap[t].balance
            /\ res[t].st = "ok" =>
                   /\ res[t].bal = old_balance[t] - arg_amt[t]
                   /\ obj[arg_id[t]].balance = old_balance[t] - arg_amt[t]

\* the whole balance of a funded account has been withdrawn
C25_Witness ==
    \E t \in Threads :
        /\ op[t] = "withdraw" /\ pc[t] = "t_rel" /\ res[t].st = "ok"
        /\ arg_amt[t] = MaxBalance /\ old_balance[t] = arg_amt[t]
        /\ obj[arg_id[t]].balance = 0

\* a deposit or withdrawal that has stored its new balance (line 174) and not yet
\* its timestamp (line 175)
MidWrite(u) == IsTxn(u) /\ pc[u] = "t_wts"

\* C26: no entry of a list_all_accounts result shows the new balance of a
\* mutation together with the last_updated from before that mutation: every
\* (balance, last_updated) pair it reports was stored together.
C26_NoTornEntry ==
    \A t \in Threads, u \in Threads :
        (op[t] = "list" /\ MidWrite(u)) =>
            \A k \in 1..Len(accounts_info[t]) :
                LET e == accounts_info[t][k] IN
                    ~ /\ e.id = arg_id[u]
                      /\ e.balance = new_balance[u]
                      /\ e.balance # csSnap[u].balance
                      /\ e.last_updated = csSnap[u].last_updated

\* C27: a step that changes which identifiers are in the account table or in the
\* lock table is taken by the caller that holds the ledger-wide lock; get_balance,
\* deposit_money and withdraw_money never insert or remove a key.
C27_StepUnderGlobalLock ==
    (accounts' # accounts \/ LockKeys' # LockKeys) =>
        \E t \in Threads :
            /\ global_owner = t /\ pc'[t] # pc[t]
            /\ ~AccountOp(t)

C27_MembershipUnderGlobalLock == [][C27_StepUnderGlobalLock]_vars

\* the account locks caller t holds
HeldLocks(t) == {l \in LockObjs : owner[l] = t}

\* C28: lock-order discipline: no caller requests the ledger-wide lock while it
\* holds an account lock, no caller holds two account locks, only delete_account
\* holds the ledger-wide lock and an account lock together, and it takes the
\* ledger-wide lock first.
C28_LockOrder ==
    \A t \in Threads :
        /\ pc[t] \in {"c_acq", "d_acq", "l_acq"} => HeldLocks(t) = {}
        /\ Cardinality(HeldLocks(t)) <= 1
        /\ (global_owner = t /\ HeldLocks(t) # {}) => op[t] = "delete"
        /\ (op[t] = "delete" /\ (pc[t] = "acq" \/ HeldLocks(t) # {})) => global_owner = t
        /\ op[t] \in {"create", "list"} => HeldLocks(t) = {}

\* delete_account holds both locks, the account already removed, while the other
\* caller waits for the ledger-wide lock
C28_Witness ==
    \E t \in Threads, u \in Threads :
        /\ op[t] = "delete" /\ pc[t] = "d_dellk"
        /\ global_owner = t /\ HeldLocks(t) = {lk[t]}
        /\ pc[u] = "l_acq"

\* C29 as stated: the holder of the ledger-wide lock never waits for an account
\* lock that an in-flight deposit or withdrawal holds (a state in which every
\* create_account and list_all_accounts is blocked behind that transaction).
C29_HolderNeverWaits ==
    \A u \in Threads, v \in Threads :
        ~ /\ global_owner = u /\ pc[u] = "acq"
          /\ owner[lk[u]] = v /\ IsTxn(v)

\* C29, amended: create_account and list_all_accounts never wait while they hold
\* the ledger-wide lock; its holder waits for an account lock only in
\* delete_account, only for the lock of the account it deletes, and the caller
\* it waits for is inside that account's critical section and can go on.
C29_OnlyDeleteWaits ==
    \A u \in Threads :
        global_owner = u =>
            /\ op[u] \in {"create", "list"} => ENABLED ThreadSteps(u)
            /\ (pc[u] = "acq" /\ owner[lk[u]] # None) =>
                   /\ op[u] = "delete"
                   /\ LET v == owner[lk[u]] IN
                        /\ AccountOp(v) /\ InSection(v) /\ arg_id[v] = arg_id[u]
                        /\ global_owner # v
                        /\ ENABLED ThreadSteps(v)

\* delete_account holds the ledger-wide lock and waits behind a withdrawal that
\* is about to fail
C29_Witness ==
    \E u \in Threads, v \in Threads :
        /\ op[u] = "delete" /\ global_owner = u /\ pc[u] = "acq" /\ owner[lk[u]] = v
        /\ op[v] = "withdraw" /\ pc[v] = "t_rel" /\ res[v].st = "InsufficientFunds"

\* a step changes an account's last_updated only if it is the timestamp write of
\* a deposit or withdrawal on that account, or the creation of the account
C30_TimestampStep ==
    \A i \in AllocIds :
        obj'[i].last_updated # obj[i].last_updated =>
            \E t \in Threads :
                \/ IsTxn(t) /\ arg_id[t] = i /\ pc[t] = "t_wts" /\ pc'[t] = "t_store"
                \/ op[t] = "create" /\ pc[t] = "c_new" /\ arg_id'[t] = i

\* a deposit or withdrawal that returns success has set last_updated to the time
\* it read, not earlier than the value it found; one that fails has left it; and
\* the timestamp write is only reached by calls that go on to succeed
C30_TimestampState ==
    /\ \A i \in accounts : obj[i].last_updated >= obj[i].created_at
    /\ \A t \in Threads :
        IsTxn(t) =>
            /\ (pc[t] = "t_rel" /\ res[t].st = "ok") =>
                   /\ obj[arg_id[t]].last_updated = myTs[t]
                   /\ myTs[t] >= csSnap[t].last_updated
            /\ (pc[t] = "t_rel" /\ res[t].st = "InsufficientFunds") =>
                   obj[arg_id[t]].last_updated = csSnap[t].last_updated
            /\ pc[t] \in {"t_store", "t_resp"} => ~Failed(t)

\* C30: last_updated is advanced by every deposit_money / withdraw_money that
\* returns success and by nothing else (get_balance, list_all_accounts and failing
\* calls leave it), and it is never earlier than created_at.
C30_LastUpdated ==
    /\ []C30_TimestampState
    /\ [][C30_TimestampStep]_vars

\* a deposit has advanced a timestamp that an earlier mutation had advanced
C30_Witness ==
    \E t \in Threads :
        /\ op[t] = "deposit" /\ pc[t] = "t_rel" /\ res[t].st = "ok"
        /\ obj[arg_id[t]].last_updated > csSnap[t].last_updated
        /\ csSnap[t].last_updated > csSnap[t].created_at

\* creates of the batch that have returned CapacityExceeded
BatchFailed ==
    script - Cardinality(known) - Cardinality({t \in Threads : pc[t] # "idle"})

\* the capacity check turns a create away only when the table is full
C31_CheckStep ==
    \A t \in Threads :
        (pc[t] = "c_chk" /\ res'[t].st = "CapacityExceeded") =>
            Cardinality(accounts) = MAX_ACCOUNTS

C31_BatchState ==
    /\ Cardinality(accounts) <= MAX_ACCOUNTS
    /\ BatchFailed >= 0
    /\ BatchFailed > 0 => Cardinality(accounts) = MAX_ACCOUNTS
    /\ \A t \in Threads :
        /\ pc[t] = "c_rel" => res[t].st \in {"ok", "CapacityExceeded"}
        /\ res[t].st = "CapacityExceeded" => Cardinality(accounts) = MAX_ACCOUNTS
    /\ (\A t \in Threads : pc[t] = "idle") =>
        /\ accounts = known
        /\ Cardinality(known) = Min({script, MAX_ACCOUNTS})
        /\ BatchFailed = script - Min({script, MAX_ACCOUNTS})

\* C31: of k creates issued side by side with m free slots and no delete, exactly
\* min(k, m) succeed and the others fail with CapacityExceeded, and a create fails
\* so only when the table holds MAX_ACCOUNTS accounts at its check.
C31_CreatesAtomic ==
    /\ []C31_BatchState
    /\ [][C31_CheckStep]_vars

\* two creates were issued for the last free slot: one has it, the other waits
C31_Witness ==
    \E t, u \in Threads :
        /\ t # u
        /\ pc[t] = "c_rel" /\ res[t].st = "ok"
        /\ pc[u] = "c_acq"
        /\ script = MAX_ACCOUNTS + 1
        /\ Cardinality(accounts) = MAX_ACCOUNTS

\* C32: when create_account(b) returns (id, b), id was returned by no earlier
\* create (of a live or of a deleted account) and is in no other call's hands, the
\* table holds id with balance b, and get_balance(id) with no mutation in between
\* returns b.
C32_CreateReturnsFresh ==
    /\ \A t \in Threads :
        (op[t] = "create" /\ pc[t] = "c_rel" /\ res[t].st = "ok") =>
            /\ res[t].id \notin known \cup deleted
            /\ \A u \in Threads \ {t} : arg_id[u] # res[t].id
            /\ res[t].id \in accounts
            /\ res[t].bal = arg_amt[t]
            /\ obj[res[t].id].balance = arg_amt[t]
            /\ expected[res[t].id] = arg_amt[t]
    /\ \A t \in Threads :
        (op[t] = "get_balance" /\ pc[t] = "g_rel" /\ res[t].st = "ok") =>
            res[t].bal = expected[arg_id[t]]
    /\ \A i \in accounts : obj[i].balance = expected[i]

\* a create returns a third identifier beside a live account that has been read
\* and a deleted one
C32_Witness ==
    \E t \in Threads :
        /\ op[t] = "create" /\ pc[t] = "c_rel" /\ res[t].st = "ok"
        /\ deleted # {}
        /\ \E i \in known \ deleted : lastRead[i] # {}

\* deletes that have passed the membership check for identifier i and not returned
Deleting(i) ==
    {t \in Threads : /\ op[t] = "delete" /\ arg_id[t] = i
                     /\ \/ pc[t] \in {"lk", "lkset", "acq", "d_del", "d_dellk", "d_lrel"}
                        \/ pc[t] = "d_rel" /\ res[t].st = "ok"}

\* one delete at a time is past the check; the one that succeeds is the first to do
\* so for its identifier; one that fails on an identifier that was not yet reported
\* deleted when it was invoked fails with NotFound after another delete's success
C33_DeleteState ==
    /\ \A i \in AllocIds : Cardinality(Deleting(i)) <= 1
    /\ \A i \in AllocIds : Deleting(i) # {} => i \notin deleted
    /\ \A t \in Threads :
        (op[t] = "delete" /\ pc[t] = "d_rel") =>
            /\ res[t].st \in {"ok", "NotFound"}
            /\ res[t].st = "ok" => arg_id[t] \notin accounts
            /\ (res[t].st = "NotFound" /\ arg_id[t] \in known) =>
                   arg_id[t] \in deleted

\* the account and its lock entry leave their tables in steps of the one delete
\* that is past the check, and an identifier never comes back into the table
C33_RemovalSteps ==
    \A i \in AllocIds :
        /\ (i \in accounts /\ i \notin accounts') =>
               \E t \in Deleting(i) : pc[t] = "d_del" /\ pc'[t] = "d_dellk"
        /\ (account_locks[i] # NoLock /\ account_locks'[i] = NoLock) =>
               \E t \in Deleting(i) : pc[t] = "d_dellk" /\ pc'[t] = "d_lrel"
        /\ (i \in uuids /\ i \notin accounts) => i \notin accounts'

\* C33: of several delete_account calls running side by side on one live account
\* exactly one returns success and every other one fails with NotFound; the
\* account and its lock entry are removed once.
C33_OneDeleteWins ==
    /\ []C33_DeleteState
    /\ [][C33_RemovalSteps]_vars

\* a delete invoked while the account was still reported live has lost to the
\* other caller's delete
C33_Witness ==
    \E t \in Threads :
        /\ op[t] = "delete" /\ pc[t] = "d_rel" /\ res[t].st = "NotFound"
        /\ ~invokedDeleted[t]
        /\ arg_id[t] \in deleted

\* withdrawals on account i that are returning success
Succeeding(i) ==
    {t \in Threads : /\ op[t] = "withdraw" /\ arg_id[t] = i
                     /\ pc[t] = "t_rel" /\ res[t].st = "ok"}

RECURSIVE SumAmounts(_)
SumAmounts(S) ==
    IF S = {} THEN 0
    ELSE LET t == Min(S) IN arg_amt[t] + SumAmounts(S \ {t})

\* the amounts of the withdrawals on account i that have returned or are returning
\* success (the account was created with MaxBalance and nothing is deposited)
Withdrawn(i) == (MaxBalance - expected[i]) + SumAmounts(Succeeding(i))

\* C34: withdrawals running side by side on one account with balance B and no
\* deposit succeed for a total of at most B; two withdrawals of a with
\* a <= B < 2a never both succeed.
C34_NoDoubleSpend ==
    \A i \in accounts :
        /\ Withdrawn(i) <= MaxBalance
        /\ obj[i].balance >= 0
        /\ \A t \in Succeeding(i) :
            /\ arg_amt[t] <= old_balance[t]
            /\ old_balance[t] = expected[i]
        /\ \A t \in Threads :
            (op[t] = "withdraw" /\ arg_id[t] = i /\ pc[t] = "t_rel"
             /\ res[t].st = "InsufficientFunds") =>
                /\ arg_amt[t] > old_balance[t]
                /\ old_balance[t] = expected[i]

\* of two withdrawals of the whole balance one is returning success while the
\* other waits for the account's lock
C34_Witness ==
    \E t, u \in Threads :
        /\ t # u
        /\ t \in Succeeding(arg_id[t])
        /\ arg_amt[t] = MaxBalance /\ old_balance[t] = MaxBalance
        /\ op[u] = "withdraw" /\ arg_id[u] = arg_id[t] /\ pc[u] = "acq"
        /\ arg_amt[u] = MaxBalance

\* C35: whatever signed amount deposit_money and withdraw_money are called with
\* (zero and negative ones included, no request-layer validation before them),
\* every balance in the table, every balance about to be written and every balance
\* returned is >= 0.
C35_NonNegativeAnyAmount ==
    /\ \A i \in AllocIds : obj[i].balance >= 0
    /\ \A t \in Threads :
        IsTxn(t) =>
            /\ pc[t] \in {"t_wbal", "t_wts", "t_store", "t_resp"} =>
                   /\ new_balance[t] >= 0
                   /\ new_balance[t] = old_balance[t] + AmountChange(op[t], arg_amt[t])
            /\ (pc[t] = "t_rel" /\ res[t].st = "ok") =>
                   /\ res[t].bal >= 0
                   /\ obj[arg_id[t]].balance = res[t].bal
            /\ (pc[t] = "t_rel" /\ res[t].st = "InsufficientFunds") =>
                   old_balance[t] + AmountChange(op[t], arg_amt[t]) < 0

\* a deposit of a negative amount has taken the balance down to 0 and a further
\* one waits
C35_Witness ==
    \E t, u \in Threads :
        /\ op[t] = "deposit" /\ arg_amt[t] < 0
        /\ pc[t] = "t_rel" /\ res[t].st = "ok" /\ res[t].bal = 0
        /\ u # t /\ IsTxn(u) /\ arg_id[u] = arg_id[t] /\ pc[u] = "acq"
        /\ ~ValidAmount(arg_amt[u])

\* accounts whose identifier create_account has returned and that are in the table
Live == accounts \cap known

\* calls that take the lock of the account they name
UsesLock(t) == op[t] \in {"get_balance", "deposit", "withdraw", "delete"}

\* every call on a live account that has looked its lock up has the one lock
\* object of the account's entry, and at most one of them holds it
C36_OneLockState ==
    \A i \in Live :
        /\ account_locks[i] # NoLock
        /\ \A t \in Threads :
            (UsesLock(t) /\ arg_id[t] = i /\ lk[t] # NoLock) =>
                /\ lk[t] = account_locks[i]
                /\ pc[t] # "lkset"
        /\ \A t, u \in Threads :
            (t # u /\ UsesLock(t) /\ UsesLock(u) /\ arg_id[t] = i /\ arg_id[u] = i
             /\ lk[t] # NoLock /\ lk[u] # NoLock) =>
                ~(owner[lk[t]] = t /\ owner[lk[u]] = u)

\* the entry of an account that stays live is not replaced
C36_EntryStep ==
    \A i \in Live : i \in accounts' => account_locks'[i] = account_locks[i]

\* C36: from the return of create_account to the removal by delete_account every
\* get_balance, deposit, withdraw and delete on the identifier contends on one and
\* the same lock object; no two callers hold different locks for a live account.
C36_LockIdentity ==
    /\ []C36_OneLockState
    /\ [][C36_EntryStep]_vars

\* a read holds the lock of a live account while a deposit waits for the same
\* lock object
C36_Witness ==
    \E t, u \in Threads :
        /\ op[t] = "get_balance" /\ pc[t] = "g_read" /\ owner[lk[t]] = t
        /\ arg_id[t] \in Live
        /\ op[u] = "deposit" /\ pc[u] = "acq" /\ arg_id[u] = arg_id[t]
        /\ lk[u] = lk[t] /\ lk[t] = account_locks[arg_id[t]]

TypeOK ==
    /\ accounts \subseteq AllocIds
    /\ \A i \in Ids : account_locks[i] \in LockObjs \cup {NoLock}
    /\ global_owner \in Threads \cup {None}
    /\ clock \in 0..MaxClock
    /\ \A i \in AllocIds : lastRead[i] \subseteq Nat
    /\ script \in Nat

====
